---- MODULE Spec2Model ----
(***************************************************************************)
(* Relay Endpoint of the Synexian playground: the POST handler of          *)
(* src/app/api/chat/route.ts (the nodejs-runtime variant, lines 118-227),  *)
(* modelled as a state machine with one step per synchronous segment of    *)
(* the handler (the segments are separated by its awaits), and the Page    *)
(* component of src/app/page.tsx (session state, local storage, send and   *)
(* its relay call), with one step per event handler, effect round or       *)
(* continuation of send.                                                   *)
(*                                                                         *)
(* Representation.                                                         *)
(*   - An optional JSON field is a sequence of length at most one:         *)
(*     <<>> is "absent / undefined", <<v>> is "present with value v".      *)
(*   - A text that the code builds with a template literal, or that the    *)
(*     code transforms character by character, is a sequence of tokens;    *)
(*     concatenation is \o and the empty text is <<>>.                     *)
(*   - Provider identifiers, keys, base URLs and message contents are      *)
(*     atomic strings ("" is the empty string).                            *)
(*   - A temperature is a number of hundredths (70 is 0.7).                *)
(***************************************************************************)
EXTENDS Integers, Sequences, FiniteSets, TLC

VARIABLES
    processEnv,     \* process.env: env. variable name -> optional value
    pc,             \* position of the handler: "idle", "fetching", "done"
    req,            \* the request of the current invocation
    upstream,       \* optional: the upstream call issued by this invocation
    upstreamCalls,  \* number of upstream calls issued by this invocation
    answer,         \* optional: how the upstream call ended
    resp,           \* optional: what the invocation ended with
    page,           \* the Page component: "unmounted" or "ready"
    ui,             \* the React state of Page (one field per useState)
    localStorage,   \* optional: the record stored under the storage key
    calls,          \* the send() invocations that have not run to their end
    sends,          \* number of send() invocations that got past the guard
    lastReset,      \* value of `sends` at the last resetChat
    fresh           \* no request was issued yet for the current conversation

serverVars == <<processEnv, pc, req, upstream, upstreamCalls, answer, resp>>
clientVars == <<page, ui, localStorage, calls, sends, lastReset, fresh>>
vars == <<processEnv, pc, req, upstream, upstreamCalls, answer, resp,
          page, ui, localStorage, calls, sends, lastReset, fresh>>

(***************************************************************************)
(* Bounds and input domains                                                *)
(***************************************************************************)
MaxMsgs == 2
MaxSends == 2

None == <<>>
Some(v) == <<v>>
Has(o) == o # <<>>
Val(o) == o[1]

Roles == {"system", "user", "assistant"}
Contents == {"hi", "yo"}
MsgValues == [role : Roles, content : Contents]

RECURSIVE SeqsUpTo(_, _)
SeqsUpTo(S, n) ==
    IF n = 0 THEN {<<>>}
    ELSE LET shorter == SeqsUpTo(S, n - 1)
         IN  shorter \cup {Append(s, x) : s \in {t \in shorter : Len(t) = n - 1}, x \in S}

Transcripts == SeqsUpTo(MsgValues, MaxMsgs)

\* the `messages` field: absent, present but not an array, or an array
MessagesInputs ==
    {[kind |-> "absent", items |-> <<>>], [kind |-> "notArray", items |-> <<>>]}
    \cup {[kind |-> "array", items |-> t] : t \in Transcripts}

KnownProviders == {"openai", "together", "perplexity", "groq", "mistral", "gemini"}
\* identifiers outside the table: an arbitrary one, and one that names a
\* property every JavaScript object inherits from Object.prototype
ForeignProviders == {"unknown-x", "constructor"}
ProviderInputs == {None, Some("")} \cup {Some(p) : p \in KnownProviders \cup ForeignProviders}

ModelInputs == {None, Some(<<>>), Some(<<"org", "/", "my-model">>)}
ApiKeyInputs == {None, Some(""), Some("sk-client")}
BaseUrlInputs == {None, Some(""), Some("https://proxy.example")}
TemperatureInputs == {None, Some(20)}

EmptyBody ==
    [provider |-> None, model |-> None,
     messages |-> [kind |-> "absent", items |-> <<>>],
     apiKey |-> None, baseUrl |-> None, temperature |-> None]

\* bodies that parse to a JSON object
ObjectBodies ==
    [provider : ProviderInputs, model : ModelInputs, messages : MessagesInputs,
     apiKey : ApiKeyInputs, baseUrl : BaseUrlInputs, temperature : TemperatureInputs]

\* what req.json() can produce: a fault, the JSON value null, or an object
Requests ==
    {[parse |-> "invalid", body |-> EmptyBody], [parse |-> "null", body |-> EmptyBody]}
    \cup {[parse |-> "object", body |-> b] : b \in ObjectBodies}

NoRequest == [parse |-> "none", body |-> EmptyBody]

EnvNames == {"OPENAI_API_KEY", "TOGETHER_API_KEY", "PPLX_API_KEY",
             "GROQ_API_KEY", "MISTRAL_API_KEY", "GEMINI_API_KEY"}

\* the secret an environment variable holds when the deployment sets it
EnvSecret(name) == "secret-of-" \o name

EnvSettings == {{}, {"GEMINI_API_KEY", "GROQ_API_KEY"}, EnvNames}

UpstreamStatuses == {304, 429, 500}
UpstreamTexts == {<<"quota exceeded">>, <<"bad gateway">>}
\* success payloads: the reply fields the upstream JSON may carry
\* (choices[0].message.content, choices[0].text,
\*  candidates[0].content.parts[0].text)
JsonPayloads ==
    [content : {None, Some(""), Some("hello")}, text : {None, Some("x")},
     candidate : {None, Some("bonjour")}]
NoJson == [content |-> None, text |-> None, candidate |-> None]

\* how a fetch can end: it rejects, or the upstream answers with a status,
\* a body text (read on a non-success status) and a JSON payload (read on
\* success; isJson is FALSE when the success body does not parse)
Rejected == [kind |-> "rejected", status |-> 0, text |-> <<>>, isJson |-> FALSE, json |-> NoJson]
NotOk(status, t) == [kind |-> "notOk", status |-> status, text |-> t, isJson |-> FALSE, json |-> NoJson]
Ok(json) == [kind |-> "ok", status |-> 200, text |-> <<>>, isJson |-> TRUE, json |-> json]
OkNotJson == [kind |-> "ok", status |-> 200, text |-> <<>>, isJson |-> FALSE, json |-> NoJson]

(***************************************************************************)
(* JavaScript operators the handler relies on                              *)
(***************************************************************************)
\* a || b on optional strings: a when it is present and non-empty, else b
OrElse(a, b) == IF Has(a) /\ Val(a) # "" THEN a ELSE b
\* a || b on optional texts
OrElseText(a, b) == IF Has(a) /\ Val(a) # <<>> THEN a ELSE b
\* `${x}` of an optional string: the string, or "undefined"
Str(o) == IF Has(o) THEN Val(o) ELSE "undefined"

\* encodeURIComponent on a text whose tokens are runs of unreserved
\* characters or the single reserved character "/"
EncodeToken(t) == IF t = "/" THEN "%2F" ELSE t
encodeURIComponent(text) == [i \in 1..Len(text) |-> EncodeToken(text[i])]

(***************************************************************************)
(* Provider Configuration Table                                            *)
(***************************************************************************)
PROVIDERS ==
    [p \in KnownProviders |->
        CASE p = "openai"     -> [base |-> "https://api.openai.com",    env |-> "OPENAI_API_KEY",   path |-> "/v1/chat/completions"]
          [] p = "together"   -> [base |-> "https://api.together.xyz",  env |-> "TOGETHER_API_KEY", path |-> "/v1/chat/completions"]
          [] p = "perplexity" -> [base |-> "https://api.perplexity.ai", env |-> "PPLX_API_KEY",     path |-> "/v1/chat/completions"]
          [] p = "groq"       -> [base |-> "https://api.groq.com",      env |-> "GROQ_API_KEY",     path |-> "/openai/v1/chat/completions"]
          [] p = "mistral"    -> [base |-> "https://api.mistral.ai",    env |-> "MISTRAL_API_KEY",  path |-> "/v1/chat/completions"]
          [] p = "gemini"     -> [base |-> "https://generativelanguage.googleapis.com", env |-> "GEMINI_API_KEY", path |-> ""]]

\* names every object literal inherits from Object.prototype
ObjectPrototypeKeys == {"constructor", "toString", "valueOf", "hasOwnProperty", "__proto__"}

\* (PROVIDERS as any)[provider]: an own entry, an inherited property (truthy,
\* but without base, env and path), or undefined
Lookup(provider) ==
    IF provider \in DOMAIN PROVIDERS
    THEN [truthy |-> TRUE, base |-> Some(PROVIDERS[provider].base),
          env |-> Some(PROVIDERS[provider].env), path |-> Some(PROVIDERS[provider].path)]
    ELSE [truthy |-> provider \in ObjectPrototypeKeys,
          base |-> None, env |-> None, path |-> None]

\* env(name): process.env[name]; the name `undefined` reads no variable
env(name) ==
    IF Has(name) /\ Val(name) \in DOMAIN processEnv THEN processEnv[Val(name)] ELSE None

\* the inline default-model chain of the OpenAI-compatible branch
DefaultModel(provider) ==
    CASE provider = "openai"     -> <<"gpt-4o-mini">>
      [] provider = "together"   -> <<"meta-llama", "/", "Llama-3.1-8B-Instruct-Turbo">>
      [] provider = "perplexity" -> <<"llama-3.1-70b-instruct">>
      [] provider = "groq"       -> <<"llama3-70b-8192">>
      [] provider = "mistral"    -> <<"mistral-large-latest">>
      [] OTHER                   -> <<"gpt-4o-mini">>

GeminiDefaultModel == <<"gemini-1.5-flash">>
DefaultTemperature == 70

(***************************************************************************)
(* Responses                                                               *)
(***************************************************************************)
\* an exception that leaves POST: the framework answers 500 without a body
Fault ==
    [kind |-> "fault", status |-> 500, error |-> <<>>, reply |-> None,
     provider |-> None, model |-> None]

\* statuses the Response constructor refuses together with a body
NullBodyStatuses == {101, 103, 204, 205, 304}

\* error(status, message): new Response(JSON.stringify({error}), {status});
\* the constructor throws for a status outside 200..599 and for a null-body
\* status
error(status, message) ==
    IF status \notin 200..599 \/ status \in NullBodyStatuses
    THEN Fault
    ELSE [kind |-> "error", status |-> status, error |-> message, reply |-> None,
          provider |-> None, model |-> None]

\* Response.json({ reply, provider, model })
Success(reply, provider, model) ==
    [kind |-> "success", status |-> 200, error |-> <<>>, reply |-> Some(reply),
     provider |-> Some(provider), model |-> Some(model)]

(***************************************************************************)
(* The handler, first segment: from the parsed body to the response or to  *)
(* the upstream fetch                                                      *)
(***************************************************************************)
\* variant of useModel that ignores the caller's model
useModel_AlwaysDefault(body) ==
    IF Val(body.provider) = "gemini" THEN GeminiDefaultModel
    ELSE DefaultModel(Val(body.provider))

\* const useModel = model || <default>, per branch
useModel(body) ==
    LET provider == Val(body.provider)
    IN  IF provider = "gemini"
        THEN Val(OrElseText(body.model, Some(GeminiDefaultModel)))
        ELSE Val(OrElseText(body.model, Some(DefaultModel(provider))))

\* variant of ResolveKey with the precedence reversed
ResolveKey_EnvFirst(body, envName) == OrElse(env(envName), body.apiKey)

\* const key = clientKey || env(<provider's variable>)
ResolveKey(body, envName) == OrElse(body.apiKey, env(envName))

\* variant of GeminiContent that maps only "user" to "user"
GeminiContent_SystemAsModel(m) ==
    [role |-> IF m.role = "user" THEN "user" ELSE "model",
     parts |-> <<[text |-> m.content]>>]

\* messages.map(m => ({ role: ..., parts: [{ text: m.content }] }))
GeminiContent(m) ==
    [role |-> IF m.role = "assistant" THEN "model" ELSE "user",
     parts |-> <<[text |-> m.content]>>]
contents(messages) == [i \in 1..Len(messages) |-> GeminiContent(messages[i])]

GeminiCall(body, key) ==
    [branch |-> "gemini", method |-> "POST",
     url |-> <<PROVIDERS["gemini"].base, "/v1beta/models/">>
             \o encodeURIComponent(useModel(body)) \o <<":generateContent">>,
     authHeader |-> "x-goog-api-key", authValue |-> <<key>>,
     model |-> None, messages |-> <<>>,
     contents |-> contents(body.messages.items),
     temperature |-> Some(DefaultTemperature)]

\* temperature of the OpenAI-compatible upstream body
UpstreamTemperature(body) == DefaultTemperature

\* variant of OpenAIUrl in which a caller-supplied baseUrl is the whole URL
OpenAIUrl_BaseUrlReplacesPath(body, p) ==
    IF Has(body.baseUrl) /\ Val(body.baseUrl) # "" THEN <<Val(body.baseUrl), "">>
    ELSE <<Str(p.base), Str(p.path)>>

\* `${(baseUrl || p.base)}${p.path}`
OpenAIUrl(body, p) == <<Str(OrElse(body.baseUrl, p.base)), Str(p.path)>>

OpenAICall(body, p, key) ==
    [branch |-> "openai", method |-> "POST",
     url |-> OpenAIUrl(body, p),
     authHeader |-> "Authorization", authValue |-> <<"Bearer ", key>>,
     model |-> Some(useModel(body)), messages |-> body.messages.items,
     contents |-> <<>>,
     temperature |-> Some(UpstreamTemperature(body))]

\* fetch() rejects without contacting anything when the URL has no scheme
ValidUrl(url) == url[1] # "undefined"

Answer(r) == [resp |-> Some(r), call |-> None]
Issue(c) == [resp |-> None, call |-> Some(c)]

MissingProvider == error(400, <<"Missing '", "provider", "'">>)
MissingMessages == error(400, <<"Missing '", "messages", "'">>)
UnsupportedProvider(provider) == error(400, <<"Unsupported provider: ", provider>>)
MissingGeminiKey ==
    error(401, <<"Missing Gemini API key (provide apiKey or set ", "GEMINI_API_KEY", ")">>)
\* variant of MissingKey that does not say which variable is missing
MissingKey_NoEnvName(provider, p) ==
    error(401, <<"Missing API key for ", provider, " (provide apiKey)">>)

MissingKey(provider, p) ==
    error(401, <<"Missing API key for ", provider, " (provide apiKey or set ", Str(p.env), ")">>)

\* the gemini branch of POST up to its fetch
GeminiBranch(body) ==
    LET key == ResolveKey(body, Some(PROVIDERS["gemini"].env))
    IN  IF ~ (Has(key) /\ Val(key) # "") THEN Answer(MissingGeminiKey)
        ELSE Issue(GeminiCall(body, Val(key)))

\* the OpenAI-compatible branch of POST up to its fetch
OpenAIBranch(body) ==
    LET provider == Val(body.provider)
        p == Lookup(provider)
        key == ResolveKey(body, p.env)
    IN  IF ~ p.truthy THEN Answer(UnsupportedProvider(provider))
        ELSE IF ~ (Has(key) /\ Val(key) # "") THEN Answer(MissingKey(provider, p))
        ELSE IF ~ ValidUrl(OpenAIUrl(body, p)) THEN Answer(Fault)
        ELSE Issue(OpenAICall(body, p, Val(key)))

\* POST from `const { provider, ... } = body || {}` to the first await
Handle(body) ==
    IF ~ (Has(body.provider) /\ Val(body.provider) # "") THEN Answer(MissingProvider)
    ELSE IF ~ (body.messages.kind = "array" /\ Len(body.messages.items) # 0)
         THEN Answer(MissingMessages)
    ELSE IF Val(body.provider) = "gemini" THEN GeminiBranch(body)
    ELSE OpenAIBranch(body)

\* POST from its entry: req.json() throws, or yields null or an object
HandleRequest(r) ==
    IF r.parse = "invalid" THEN Answer(error(400, <<"Invalid JSON body">>))
    ELSE Handle(r.body)

(***************************************************************************)
(* The handler, second segment: from the upstream answer to the response   *)
(***************************************************************************)
UpstreamErrorText(provider, branch, t) ==
    IF branch = "gemini" THEN <<"Gemini", " upstream error: ">> \o t
    ELSE <<provider, " upstream error: ">> \o t

\* if (!r.ok) return error(r.status, `... upstream error: ${await r.text()}`)
UpstreamFailure(body, branch, status, t) ==
    error(status, UpstreamErrorText(Val(body.provider), branch, t))

\* a ?? b
Coalesce(a, b) == IF Has(a) THEN a ELSE b

NoContent == "(no content)"

\* variant of Reply that prefers choices[0].text to the message content
Reply_TextFirst(branch, json) ==
    IF branch = "gemini"
    THEN Val(Coalesce(json.candidate, Some(NoContent)))
    ELSE Val(Coalesce(json.text, Coalesce(json.content, Some(NoContent))))

\* the reply fallback chain of each branch
Reply(branch, json) ==
    IF branch = "gemini"
    THEN Val(Coalesce(json.candidate, Some(NoContent)))
    ELSE Val(Coalesce(json.content, Coalesce(json.text, Some(NoContent))))

UpstreamSuccess(body, branch, json) ==
    IF branch = "gemini"
    THEN Success(Reply(branch, json), "gemini", useModel(body))
    ELSE Success(Reply(branch, json), Val(body.provider), useModel(body))

(***************************************************************************)
(* The Page component: state, storage record and input domains             *)
(***************************************************************************)
\* the client's table of default models
DEFAULTS ==
    [p \in KnownProviders |->
        CASE p = "openai"     -> <<"gpt-4o-mini">>
          [] p = "together"   -> <<"meta-llama", "/", "Llama-3.1-8B-Instruct-Turbo">>
          [] p = "perplexity" -> <<"llama-3.1-70b-instruct">>
          [] p = "groq"       -> <<"llama3-70b-8192">>
          [] p = "mistral"    -> <<"mistral-large-latest">>
          [] p = "gemini"     -> <<"gemini-1.5-flash">>]

DefaultSystem == "You are Synexian's helpful assistant."

\* useState initial values
InitialUi ==
    [provider |-> "openai", model |-> DEFAULTS["openai"], system |-> DefaultSystem,
     messages |-> <<>>, input |-> "", loading |-> FALSE, temperature |-> 70,
     useClientKey |-> TRUE, clientKey |-> ""]

\* what the user can select or type
ClientProviders == {"openai", "gemini"}
ClientModelInputs == {<<"my-model">>}
SystemInputs == {DefaultSystem, ""}
SliderValues == {20, 70}
ClientKeyInputs == {"", "sk-client"}
InputTexts == {"", " q "}

\* String.prototype.trim on the texts above
trim(str) ==
    CASE str = " q " -> "q"
      [] OTHER       -> str

\* clamp(n, min, max)
Max2(a, b) == IF a >= b THEN a ELSE b
Min2(a, b) == IF a <= b THEN a ELSE b
clamp(n, min, max) == Max2(min, Min2(max, n))

\* the fields of the record JSON.stringify writes under STORAGE_KEY
SessionFields == {"provider", "model", "system", "messages", "temperature", "useClientKey"}

\* JSON.stringify({ provider, model, system, messages, temperature, useClientKey })
SessionRecord(u) ==
    [fields |-> SessionFields, provider |-> u.provider, model |-> u.model,
     system |-> u.system, messages |-> u.messages, temperature |-> u.temperature,
     useClientKey |-> u.useClientKey]

\* the persist effect: it runs when one of its dependencies changed
PersistDeps(u) == <<u.provider, u.model, u.system, u.messages, u.temperature, u.useClientKey>>
PersistEffect(before, after, stored) ==
    IF PersistDeps(before) # PersistDeps(after) THEN Some(SessionRecord(after)) ELSE stored

\* the state of the client before the page is opened
ClientIdle ==
    /\ page = "unmounted"
    /\ ui = InitialUi
    /\ localStorage = None
    /\ calls = <<>>
    /\ sends = 0
    /\ lastReset = 0
    /\ fresh = TRUE

\* the state of the endpoint between two invocations
ServerIdle ==
    /\ pc = "idle"
    /\ req = NoRequest
    /\ upstream = None
    /\ upstreamCalls = 0
    /\ answer = None
    /\ resp = None

(***************************************************************************)
(* State machine                                                           *)
(***************************************************************************)
Init ==
    /\ \E set \in EnvSettings :
         processEnv = [n \in EnvNames |-> IF n \in set THEN Some(EnvSecret(n)) ELSE None]
    /\ pc = "idle"
    /\ req = NoRequest
    /\ upstream = None
    /\ upstreamCalls = 0
    /\ answer = None
    /\ resp = None
    /\ ClientIdle

\* a request arrives and POST runs up to its response or its fetch
POST(r) ==
    /\ pc = "idle"
    /\ req' = r
    /\ LET out == HandleRequest(r)
       IN  /\ resp' = out.resp
           /\ upstream' = out.call
           /\ upstreamCalls' = IF Has(out.call) THEN upstreamCalls + 1 ELSE upstreamCalls
           /\ pc' = IF Has(out.call) THEN "fetching" ELSE "done"
    /\ UNCHANGED <<processEnv, answer>>
    /\ UNCHANGED clientVars

\* the upstream cannot be reached: fetch rejects and nothing catches it
FetchRejects ==
    /\ pc = "fetching"
    /\ answer' = Some(Rejected)
    /\ resp' = Some(Fault)
    /\ pc' = "done"
    /\ UNCHANGED <<processEnv, req, upstream, upstreamCalls>>
    /\ UNCHANGED clientVars

\* the upstream answers with a non-success status and a body text
UpstreamNotOk(status, t) ==
    /\ pc = "fetching"
    /\ answer' = Some(NotOk(status, t))
    /\ resp' = Some(UpstreamFailure(req.body, Val(upstream).branch, status, t))
    /\ pc' = "done"
    /\ UNCHANGED <<processEnv, req, upstream, upstreamCalls>>
    /\ UNCHANGED clientVars

\* the upstream answers 2xx with a JSON payload
UpstreamOk(json) ==
    /\ pc = "fetching"
    /\ answer' = Some(Ok(json))
    /\ resp' = Some(UpstreamSuccess(req.body, Val(upstream).branch, json))
    /\ pc' = "done"
    /\ UNCHANGED <<processEnv, req, upstream, upstreamCalls>>
    /\ UNCHANGED clientVars

\* the upstream answers 2xx with a body that is not JSON: r.json() throws
UpstreamOkNotJson ==
    /\ pc = "fetching"
    /\ answer' = Some(OkNotJson)
    /\ resp' = Some(Fault)
    /\ pc' = "done"
    /\ UNCHANGED <<processEnv, req, upstream, upstreamCalls>>
    /\ UNCHANGED clientVars

\* the response is delivered; the endpoint keeps nothing of the invocation
Return ==
    /\ pc = "done"
    /\ pc' = "idle"
    /\ req' = NoRequest
    /\ upstream' = None
    /\ upstreamCalls' = 0
    /\ answer' = None
    /\ resp' = None
    /\ UNCHANGED processEnv
    /\ UNCHANGED clientVars

Next ==
    \/ pc = "idle" /\ \E r \in Requests : POST(r)
    \/ FetchRejects
    \/ \E status \in UpstreamStatuses, t \in UpstreamTexts : UpstreamNotOk(status, t)
    \/ \E json \in JsonPayloads : UpstreamOk(json)
    \/ UpstreamOkNotJson
    \/ Return

Spec == Init /\ [][Next]_vars

(***************************************************************************)
(* The Page component: mount, settings, reset                              *)
(***************************************************************************)
\* the restore effect: one setter per field the saved record carries
RestoreEffect(u, saved) ==
    [u EXCEPT
        !.provider = IF saved.provider # "" THEN saved.provider ELSE @,
        !.model = IF saved.model # <<>> THEN saved.model ELSE @,
        !.system = IF saved.system # "" THEN saved.system ELSE @,
        !.messages = saved.messages,
        !.temperature = clamp(saved.temperature, 0, 100),
        !.useClientKey = saved.useClientKey]

\* the default-model effect of a render in which `provider` is `shown`
DefaultModelEffect(u, shown) == [u EXCEPT !.model = DEFAULTS[shown]]

\* the state after the effects of the first render: the restore effect's
\* setters, then setModel of the default-model effect, which still sees the
\* initial provider
FirstRound(stored) ==
    DefaultModelEffect(
        IF Has(stored) THEN RestoreEffect(InitialUi, Val(stored)) ELSE InitialUi,
        InitialUi.provider)

\* the state once the renders that follow have settled: the default-model
\* effect runs again when the provider changed
Settled(stored) ==
    LET u == FirstRound(stored)
    IN  IF u.provider # InitialUi.provider THEN DefaultModelEffect(u, u.provider) ELSE u

\* the page is opened: first render, its effects and the renders they cause
Mount ==
    /\ page = "unmounted"
    /\ page' = "ready"
    /\ ui' = Settled(localStorage)
    /\ localStorage' = Some(SessionRecord(Settled(localStorage)))
    /\ fresh' = (Settled(localStorage).messages = <<>>)
    /\ UNCHANGED <<calls, sends, lastReset>>
    /\ UNCHANGED serverVars

\* the page is closed or reloaded: the React state and the pending calls go
Unload ==
    /\ page = "ready"
    /\ page' = "unmounted"
    /\ ui' = InitialUi
    /\ calls' = <<>>
    /\ UNCHANGED <<localStorage, sends, lastReset, fresh>>
    /\ UNCHANGED serverVars

\* an event handler that only sets state: the render and the persist effect
\* that follow are part of the step
Render(next) ==
    /\ page = "ready"
    /\ ui' = next
    /\ localStorage' = PersistEffect(ui, next, localStorage)
    /\ UNCHANGED <<page, calls, sends, lastReset, fresh>>
    /\ UNCHANGED serverVars

setProvider(p) ==
    /\ p # ui.provider
    /\ Render(DefaultModelEffect([ui EXCEPT !.provider = p], p))

setModel(m) == Render([ui EXCEPT !.model = m])
setSystem(sys) == Render([ui EXCEPT !.system = sys])
setTemperature(t) == Render([ui EXCEPT !.temperature = t])
setUseClientKey(b) == Render([ui EXCEPT !.useClientKey = b])
\* the key input is rendered only while useClientKey is set
setClientKey(k) == ui.useClientKey /\ Render([ui EXCEPT !.clientKey = k])
setInput(v) == Render([ui EXCEPT !.input = v])

resetChat ==
    /\ page = "ready"
    /\ ui' = [ui EXCEPT !.messages = <<>>, !.input = ""]
    /\ localStorage' = PersistEffect(ui, ui', localStorage)
    /\ lastReset' = sends
    /\ fresh' = TRUE
    /\ UNCHANGED <<page, calls, sends>>
    /\ UNCHANGED serverVars

(***************************************************************************)
(* The Page component: send and its relay call                             *)
(***************************************************************************)
\* "[warning]" stands for the warning sign U+26A0 U+FE0F of the source
MissingKeyNotice == <<"[warning] Please add your API key in the sidebar to send messages.">>
ErrorPrefix == "[warning] Error: "
AbortMessage == <<"The operation was aborted.">>
JsonSyntaxMessage == <<"Unexpected token">>
\* messages of the faults fetch and the body readers can throw
ThrownMessages == {<<"Failed to fetch">>}
\* non-success answers of the relay: status and body text
RelayErrors ==
    {[status |-> 429, text |-> <<"{\"error\":\"groq upstream error: quota exceeded\"}">>],
     [status |-> 500, text |-> <<>>]}
\* success bodies of the relay: JSON with or without a reply, or not JSON
RelayBodies ==
    {[isJson |-> TRUE, reply |-> Some(<<"hello">>)],
     [isJson |-> TRUE, reply |-> None],
     [isJson |-> FALSE, reply |-> None]}

\* a transcript entry; `send` is the ordinal of the send() invocation that
\* created it (the source gives every entry a fresh id and a timestamp)
Entry(role, content, n) == [role |-> role, content |-> content, send |-> n]

\* append(role, content): setMessages(cur => [...cur, entry])
append(u, role, content, n) == [u EXCEPT !.messages = Append(@, Entry(role, content, n))]

\* variant of SendAllowed without the re-submission check
SendAllowed_IgnoresLoading(u) == trim(u.input) # ""

\* send(): `if (!text || loading) return`
SendAllowed(u) == trim(u.input) # "" /\ ~ u.loading

\* const bootstrap = messages.length > 0 ? messages : [system entry]
bootstrap(u, n) ==
    IF Len(u.messages) > 0 THEN u.messages ELSE <<Entry("system", <<u.system>>, n)>>

\* const next = [...bootstrap, userMsg]
NextMessages(u, n) == Append(bootstrap(u, n), Entry("user", <<trim(u.input)>>, n))

\* next.map(({ role, content }) => ({ role, content }))
Wire(msgs) == [i \in 1..Len(msgs) |-> [role |-> msgs[i].role, content |-> msgs[i].content]]

\* the JSON body of the relay call
RequestBody(u, n) ==
    [provider |-> u.provider, model |-> u.model, temperature |-> u.temperature,
     messages |-> Wire(NextMessages(u, n)),
     apiKey |-> IF u.useClientKey THEN Some(u.clientKey) ELSE None]

\* a send() invocation suspended at an await: phase "fetching" (await
\* fetch) or "reading" (await res.text() / res.json()); `timer` says whether
\* its 45 s timer is armed, `late` whether 45 s have passed since it was
\* issued
NewCall(u, n, first) ==
    [phase |-> "fetching", timer |-> TRUE, late |-> FALSE, ok |-> FALSE, status |-> 0,
     sent |-> RequestBody(u, n), system |-> u.system, first |-> first, no |-> n]

Remove(seq, i) == SubSeq(seq, 1, i - 1) \o SubSeq(seq, i + 1, Len(seq))

\* send() up to its first await
send ==
    /\ page = "ready"
    /\ sends < MaxSends
    /\ SendAllowed(ui)
    /\ sends' = sends + 1
    /\ IF ui.useClientKey /\ trim(ui.clientKey) = ""
       THEN /\ ui' = append(ui, "assistant", MissingKeyNotice, sends + 1)
            /\ UNCHANGED <<calls, fresh>>
       ELSE /\ ui' = [ui EXCEPT !.messages = NextMessages(ui, sends + 1),
                                !.input = "", !.loading = TRUE]
            /\ calls' = Append(calls, NewCall(ui, sends + 1, fresh))
            /\ fresh' = FALSE
    /\ localStorage' = PersistEffect(ui, ui', localStorage)
    /\ UNCHANGED <<page, lastReset>>
    /\ UNCHANGED serverVars

\* the Send button: disabled={loading || !input.trim()}
ClickSend == (~ ui.loading /\ trim(ui.input) # "") /\ send

\* Enter without Shift in the composer
onKeyDown == send

\* variant of ErrorContent without the warning marker
ErrorContent_NoMarker(message) ==
    IF message # <<>> THEN message ELSE <<"Unknown error">>

\* `${e?.message || "Unknown error"}` behind the warning marker
ErrorContent(message) ==
    <<ErrorPrefix>> \o (IF message # <<>> THEN message ELSE <<"Unknown error">>)

\* errText || `Request failed (${res.status})`
FailureMessage(status, errText) ==
    IF errText # <<>> THEN errText ELSE <<"Request failed (", ToString(status), ")">>

\* the end of a send() invocation: one append, then finally setLoading(false)
\* (a timer the invocation leaves armed later aborts a fetch that is over,
\* which does nothing)
Finish(i, content) ==
    /\ ui' = [append(ui, "assistant", content, calls[i].no) EXCEPT !.loading = FALSE]
    /\ calls' = Remove(calls, i)
    /\ localStorage' = PersistEffect(ui, ui', localStorage)
    /\ UNCHANGED <<page, sends, lastReset, fresh>>
    /\ UNCHANGED serverVars

\* fetch rejects (the relay cannot be reached): catch, finally
FetchFails(i, message) ==
    /\ calls[i].phase = "fetching"
    /\ Finish(i, ErrorContent(message))

\* the relay's status line and headers arrive: clearTimeout(timeout)
HeadersArrive(i, ok, status) ==
    /\ calls[i].phase = "fetching"
    /\ calls' = [calls EXCEPT ![i].phase = "reading", ![i].timer = FALSE,
                              ![i].ok = ok, ![i].status = status]
    /\ UNCHANGED <<page, ui, localStorage, sends, lastReset, fresh>>
    /\ UNCHANGED serverVars

\* the body of a non-success answer arrives: throw, catch, finally
ErrorBodyArrives(i, errText) ==
    /\ calls[i].phase = "reading" /\ ~ calls[i].ok
    /\ Finish(i, ErrorContent(FailureMessage(calls[i].status, errText)))

\* data?.reply ?? "(no reply)"
ReplyOf(body) == IF Has(body.reply) THEN Val(body.reply) ELSE <<"(no reply)">>

\* the body of a success answer arrives: the reply, or res.json() throws
BodyArrives(i, body) ==
    /\ calls[i].phase = "reading" /\ calls[i].ok
    /\ Finish(i, IF body.isJson THEN ReplyOf(body) ELSE ErrorContent(JsonSyntaxMessage))

\* reading the body fails (the connection breaks): catch, finally
BodyFails(i, message) ==
    /\ calls[i].phase = "reading"
    /\ Finish(i, ErrorContent(message))

\* 45 s have passed since the call was issued: an armed timer runs
\* controller.abort(), which makes a pending fetch reject; a timer that was
\* cleared does nothing
BoundElapses(i) ==
    /\ ~ calls[i].late
    /\ CASE calls[i].phase = "fetching" ->
              /\ ui' = [append(ui, "assistant", ErrorContent(AbortMessage), calls[i].no)
                            EXCEPT !.loading = FALSE]
              /\ calls' = Remove(calls, i)
              /\ localStorage' = PersistEffect(ui, ui', localStorage)
         [] calls[i].phase = "reading" ->
              /\ calls' = [calls EXCEPT ![i].late = TRUE]
              /\ UNCHANGED <<ui, localStorage>>
    /\ UNCHANGED <<page, sends, lastReset, fresh>>
    /\ UNCHANGED serverVars

ClientInit ==
    /\ processEnv = [n \in EnvNames |-> None]
    /\ ServerIdle
    /\ ClientIdle

\* The conversation: the composer, the key controls, the system prompt,
\* reset and the relay call with every way it can end; provider, model and
\* temperature keep their initial values.
ChatNext ==
    \/ Mount
    \/ Unload
    \/ \E sys \in SystemInputs : setSystem(sys)
    \/ \E b \in BOOLEAN : setUseClientKey(b)
    \/ \E k \in ClientKeyInputs : setClientKey(k)
    \/ \E v \in InputTexts : setInput(v)
    \/ resetChat
    \/ ClickSend
    \/ onKeyDown
    \/ \E i \in 1..Len(calls), message \in ThrownMessages : FetchFails(i, message)
    \/ \E i \in 1..Len(calls), ok \in BOOLEAN, e \in RelayErrors :
          HeadersArrive(i, ok, IF ok THEN 200 ELSE e.status)
    \/ \E i \in 1..Len(calls), e \in RelayErrors : ErrorBodyArrives(i, e.text)
    \/ \E i \in 1..Len(calls), body \in RelayBodies : BodyArrives(i, body)
    \/ \E i \in 1..Len(calls), message \in ThrownMessages : BodyFails(i, message)
    \/ \E i \in 1..Len(calls) : BoundElapses(i)

ChatSpec == ClientInit /\ [][ChatNext]_vars

\* The session store: every setting control, sends, and opening and
\* closing the page; the relay answers with a reply or cannot be reached.
SessionNext ==
    \/ Mount
    \/ Unload
    \/ \E p \in ClientProviders : setProvider(p)
    \/ \E m \in ClientModelInputs : setModel(m)
    \/ \E sys \in SystemInputs : setSystem(sys)
    \/ \E t \in SliderValues : setTemperature(t)
    \/ \E b \in BOOLEAN : setUseClientKey(b)
    \/ \E k \in ClientKeyInputs : setClientKey(k)
    \/ \E v \in InputTexts : setInput(v)
    \/ ClickSend
    \/ onKeyDown
    \/ \E i \in 1..Len(calls), message \in ThrownMessages : FetchFails(i, message)
    \/ \E i \in 1..Len(calls) : HeadersArrive(i, TRUE, 200)
    \/ \E i \in 1..Len(calls) : BodyArrives(i, [isJson |-> TRUE, reply |-> Some(<<"hello">>)])

SessionSpec == ClientInit /\ [][SessionNext]_vars

(***************************************************************************)
(* The earlier Page component (src/unnamed/part_001): record               *)
(* "synexian.chat.settings", no transcript in the record, no timeout       *)
(***************************************************************************)
\* useState initial values
EarlierInitialUi ==
    [provider |-> "openai", model |-> DEFAULTS["openai"], system |-> DefaultSystem,
     messages |-> <<>>, input |-> "", loading |-> FALSE,
     useClientKey |-> FALSE, clientKey |-> ""]

EarlierFields == {"provider", "model", "system", "useClientKey", "clientKey"}

\* JSON.stringify({ provider, model, system, useClientKey,
\*                  clientKey: useClientKey ? clientKey : "" })
EarlierRecord(u) ==
    [fields |-> EarlierFields, provider |-> u.provider, model |-> u.model,
     system |-> u.system, useClientKey |-> u.useClientKey,
     clientKey |-> IF u.useClientKey THEN u.clientKey ELSE ""]

\* the persist effect always writes the same record for the same
\* dependencies, so it is modelled as writing after every render
EarlierPersistEffect(after) == Some(EarlierRecord(after))

\* the restore effect: one setter per truthy field of the saved record
EarlierRestoreEffect(u, saved) ==
    [u EXCEPT
        !.provider = IF saved.provider # "" THEN saved.provider ELSE @,
        !.model = IF saved.model # <<>> THEN saved.model ELSE @,
        !.system = IF saved.system # "" THEN saved.system ELSE @,
        !.useClientKey = IF saved.useClientKey THEN TRUE ELSE @,
        !.clientKey = IF saved.clientKey # "" THEN saved.clientKey ELSE @]

\* const d = DEFAULTS[provider]?.model; if (d) setModel(d)
EarlierDefaultModelEffect(u, shown) ==
    IF DEFAULTS[shown] # <<>> THEN [u EXCEPT !.model = DEFAULTS[shown]] ELSE u

\* the state once the mount effects and the renders they cause have settled
EarlierSettled(stored) ==
    LET first == EarlierDefaultModelEffect(
                     IF Has(stored) THEN EarlierRestoreEffect(EarlierInitialUi, Val(stored))
                     ELSE EarlierInitialUi,
                     EarlierInitialUi.provider)
    IN  IF first.provider # EarlierInitialUi.provider
        THEN EarlierDefaultModelEffect(first, first.provider)
        ELSE first

EarlierMount ==
    /\ page = "unmounted"
    /\ page' = "ready"
    /\ ui' = EarlierSettled(localStorage)
    /\ localStorage' = EarlierPersistEffect(EarlierSettled(localStorage))
    /\ UNCHANGED <<calls, sends, lastReset, fresh>>
    /\ UNCHANGED serverVars

EarlierUnload ==
    /\ page = "ready"
    /\ page' = "unmounted"
    /\ ui' = EarlierInitialUi
    /\ calls' = <<>>
    /\ UNCHANGED <<localStorage, sends, lastReset, fresh>>
    /\ UNCHANGED serverVars

\* an event handler that only sets state, with the render and the persist
\* effect that follow
EarlierRender(next) ==
    /\ page = "ready"
    /\ ui' = next
    /\ localStorage' = EarlierPersistEffect(next)
    /\ UNCHANGED <<page, calls, sends, lastReset, fresh>>
    /\ UNCHANGED serverVars

EarlierSetProvider(p) ==
    /\ p # ui.provider
    /\ EarlierRender(EarlierDefaultModelEffect([ui EXCEPT !.provider = p], p))
EarlierSetModel(m) == EarlierRender([ui EXCEPT !.model = m])
EarlierSetSystem(sys) == EarlierRender([ui EXCEPT !.system = sys])
EarlierSetUseClientKey(b) == EarlierRender([ui EXCEPT !.useClientKey = b])
\* the key input is rendered only while useClientKey is set
EarlierSetClientKey(k) == ui.useClientKey /\ EarlierRender([ui EXCEPT !.clientKey = k])
EarlierSetInput(v) == EarlierRender([ui EXCEPT !.input = v])

\* nextMsgs: the transcript, or the system prompt when it is empty, and the
\* user's message
EarlierNextMsgs(u) ==
    Append(IF Len(u.messages) > 0 THEN u.messages
           ELSE <<[role |-> "system", content |-> <<u.system>>]>>,
           [role |-> "user", content |-> <<trim(u.input)>>])

\* send() up to its await of fetch
EarlierSend ==
    /\ page = "ready"
    /\ sends < MaxSends
    /\ trim(ui.input) # "" /\ ~ ui.loading
    /\ sends' = sends + 1
    /\ ui' = [ui EXCEPT !.messages = EarlierNextMsgs(ui), !.input = "", !.loading = TRUE]
    /\ calls' = Append(calls,
                       [provider |-> ui.provider, model |-> ui.model,
                        messages |-> EarlierNextMsgs(ui),
                        apiKey |-> IF ui.useClientKey THEN Some(ui.clientKey) ELSE None])
    /\ localStorage' = EarlierPersistEffect(ui')
    /\ UNCHANGED <<page, lastReset, fresh>>
    /\ UNCHANGED serverVars

\* the rest of send(): the reply or the error is appended, then finally
EarlierSettle(i, content) ==
    /\ page = "ready"
    /\ ui' = [ui EXCEPT !.messages = Append(@, [role |-> "assistant", content |-> content]),
                        !.loading = FALSE]
    /\ calls' = Remove(calls, i)
    /\ localStorage' = EarlierPersistEffect(ui')
    /\ UNCHANGED <<page, sends, lastReset, fresh>>
    /\ UNCHANGED serverVars

EarlierInit ==
    /\ processEnv = [n \in EnvNames |-> None]
    /\ ServerIdle
    /\ page = "unmounted"
    /\ ui = EarlierInitialUi
    /\ localStorage = None
    /\ calls = <<>>
    /\ sends = 0
    /\ lastReset = 0
    /\ fresh = TRUE

EarlierNext ==
    \/ EarlierMount
    \/ EarlierUnload
    \/ \E p \in ClientProviders : EarlierSetProvider(p)
    \/ \E m \in ClientModelInputs : EarlierSetModel(m)
    \/ \E sys \in SystemInputs : EarlierSetSystem(sys)
    \/ \E b \in BOOLEAN : EarlierSetUseClientKey(b)
    \/ \E k \in ClientKeyInputs : EarlierSetClientKey(k)
    \/ \E v \in InputTexts : EarlierSetInput(v)
    \/ EarlierSend
    \/ \E i \in 1..Len(calls), body \in RelayBodies :
          body.isJson /\ EarlierSettle(i, ReplyOf(body))
    \/ \E i \in 1..Len(calls), message \in ThrownMessages :
          EarlierSettle(i, ErrorContent(message))

EarlierSpec == EarlierInit /\ [][EarlierNext]_vars

(***************************************************************************)
(* Vocabulary of the properties                                            *)
(***************************************************************************)
Truthy(o) == Has(o) /\ Val(o) # ""
Body == req.body
Parsed == req.parse \in {"null", "object"}
ProviderPresent == Truthy(Body.provider)
MessagesOk == Body.messages.kind = "array" /\ Len(Body.messages.items) > 0
ProviderKnown == ProviderPresent /\ Val(Body.provider) \in KnownProviders
EnvOfProvider == processEnv[PROVIDERS[Val(Body.provider)].env]
KeyResolvable == Truthy(Body.apiKey) \/ Truthy(EnvOfProvider)
ValidRequest == Parsed /\ ProviderPresent /\ MessagesOk /\ ProviderKnown /\ KeyResolvable
Running == pc \in {"fetching", "done"}
Done == pc = "done"
Response == Val(resp)
Call == Val(upstream)

\* t occurs in text as a contiguous run of tokens
Contains(text, t) ==
    \E i \in 0..(Len(text) - Len(t)) : SubSeq(text, i + 1, i + Len(t)) = t
Mentions(text, token) == \E i \in 1..Len(text) : text[i] = token

\* the first validation check of the spec's list that the request fails
\* (0: none)
FirstFailingCheck ==
    IF ~ Parsed THEN 1
    ELSE IF ~ ProviderPresent THEN 2
    ELSE IF ~ MessagesOk THEN 3
    ELSE IF ~ ProviderKnown THEN 4
    ELSE 0

(***************************************************************************)
(* C1: every invocation issues at most one upstream call: exactly one when *)
(* the body parses, the provider is one of the table's, messages is a      *)
(* non-empty sequence and a key is resolvable, and none when a validation  *)
(* or credential check fails.                                              *)
(***************************************************************************)
C1_OneCallIffValid ==
    Running =>
        /\ upstreamCalls <= 1
        /\ ValidRequest => upstreamCalls = 1
        /\ ~ ValidRequest => upstreamCalls = 0

(***************************************************************************)
(* C2: the validation checks run in the order body, provider, messages,    *)
(* known provider; the first check that fails decides the response, which  *)
(* has status 400, and which mentions 'provider' when the provider is      *)
(* absent, whatever messages is.                                           *)
(***************************************************************************)
C2_FirstFailingCheckDecides ==
    (Done /\ FirstFailingCheck # 0) =>
        /\ Response.kind = "error"
        /\ Response.status = 400
        /\ upstreamCalls = 0
        /\ FirstFailingCheck = 1 => ~ Mentions(Response.error, "provider")
        /\ FirstFailingCheck = 2 => Mentions(Response.error, "provider")
        /\ FirstFailingCheck = 3 =>
              /\ ~ Mentions(Response.error, "provider")
              /\ ~ Mentions(Response.error, Val(Body.provider))
        /\ FirstFailingCheck = 4 => Mentions(Response.error, Val(Body.provider))

(***************************************************************************)
(* C3: a provider identifier that is not one of the six table entries,     *)
(* with non-empty messages, is answered 400 with an error naming the       *)
(* provider, whatever apiKey and environment are, and without any upstream *)
(* call.                                                                   *)
(***************************************************************************)
C3_UnknownProviderRejected ==
    (Running /\ Parsed /\ ProviderPresent /\ ~ ProviderKnown /\ MessagesOk) =>
        /\ upstreamCalls = 0
        /\ ~ Has(upstream)
        /\ Done
        /\ Response.kind = "error"
        /\ Response.status = 400
        /\ Mentions(Response.error, Val(Body.provider))

(***************************************************************************)
(* C4: when the request carries a client apiKey and the provider's         *)
(* environment variable is set too, the key sent upstream (Bearer token,   *)
(* or x-goog-api-key for gemini) is the client's; the environment value is *)
(* sent only when no client key is supplied.                               *)
(***************************************************************************)
SentKey == Call.authValue[Len(Call.authValue)]
AuthShapeOk ==
    IF Call.branch = "gemini"
    THEN Call.authHeader = "x-goog-api-key" /\ Call.authValue = <<SentKey>>
    ELSE Call.authHeader = "Authorization" /\ Call.authValue = <<"Bearer ", SentKey>>

C4_ClientKeyFirst ==
    (Has(upstream) /\ ProviderKnown) =>
        /\ AuthShapeOk
        /\ Truthy(Body.apiKey) => SentKey = Val(Body.apiKey)
        /\ (Truthy(EnvOfProvider) /\ SentKey = Val(EnvOfProvider)) => ~ Truthy(Body.apiKey)
        /\ ~ Truthy(Body.apiKey) => SentKey = Val(EnvOfProvider)

C4_Witness ==
    /\ Has(upstream) /\ ProviderKnown
    /\ Truthy(Body.apiKey) /\ Truthy(EnvOfProvider)
    /\ Val(Body.apiKey) # Val(EnvOfProvider)
    /\ SentKey = Val(Body.apiKey)

(***************************************************************************)
(* C5: for a known provider, no apiKey and the provider's environment      *)
(* variable unset give status 401 and an error naming that variable; an    *)
(* error produced before any upstream call never contains a key the client *)
(* supplied.                                                               *)
(***************************************************************************)
CredentialMissing ==
    Parsed /\ MessagesOk /\ ProviderKnown /\ ~ Truthy(Body.apiKey) /\ ~ Truthy(EnvOfProvider)

C5_MissingCredential ==
    /\ (Running /\ CredentialMissing) =>
          /\ Done
          /\ Response.kind = "error"
          /\ Response.status = 401
          /\ Mentions(Response.error, PROVIDERS[Val(Body.provider)].env)
          /\ upstreamCalls = 0
    /\ (Done /\ Response.kind = "error" /\ upstreamCalls = 0 /\ Truthy(Body.apiKey)) =>
          ~ Mentions(Response.error, Val(Body.apiKey))

C5_Witness ==
    /\ Done /\ CredentialMissing
    /\ Val(Body.provider) = "groq"
    /\ Response.status = 401
    /\ Mentions(Response.error, "GROQ_API_KEY")

(***************************************************************************)
(* C6: the model of a success result, and the model sent upstream, is the  *)
(* caller's model verbatim when it is present and non-empty, else the      *)
(* default model configured for the provider (DEFAULTS of the client, one  *)
(* entry per provider of the table).                                       *)
(***************************************************************************)
ModelSupplied == Has(Body.model) /\ Val(Body.model) # <<>>
ExpectedModel == IF ModelSupplied THEN Val(Body.model) ELSE DEFAULTS[Val(Body.provider)]

\* decodeURIComponent, the inverse the upstream applies to a path segment
DecodeToken(t) == IF t = "%2F" THEN "/" ELSE t
decodeURIComponent(text) == [i \in 1..Len(text) |-> DecodeToken(text[i])]
\* the model segment of the gemini URL: between the prefix and the suffix
UrlModelSegment == SubSeq(Call.url, 3, Len(Call.url) - 1)

C6_ModelResolution ==
    /\ (Has(upstream) /\ ProviderKnown) =>
          IF Call.branch = "gemini"
          THEN decodeURIComponent(UrlModelSegment) = ExpectedModel
          ELSE Call.model = Some(ExpectedModel)
    /\ (Done /\ ProviderKnown /\ Response.kind = "success") =>
          Response.model = Some(ExpectedModel)

C6_Witness ==
    /\ Done /\ Response.kind = "success"
    /\ Val(Body.provider) = "gemini"
    /\ ~ ModelSupplied
    /\ Response.model = Some(<<"gemini-1.5-flash">>)

(***************************************************************************)
(* C7: the temperature of the OpenAI-compatible upstream body is 0.7 when  *)
(* the request supplies none and the request's temperature when it         *)
(* supplies one.                                                           *)
(***************************************************************************)
C7_TemperaturePassedThrough ==
    (Has(upstream) /\ Call.branch = "openai") =>
        Call.temperature =
            (IF Has(Body.temperature) THEN Body.temperature ELSE Some(DefaultTemperature))

(***************************************************************************)
(* C8: the OpenAI-compatible upstream call is a POST to (baseUrl if        *)
(* supplied, else the configured base) followed by the provider's          *)
(* configured path, so baseUrl never replaces the path; the body's         *)
(* messages is the request transcript verbatim.                            *)
(***************************************************************************)
ExpectedBase ==
    IF Truthy(Body.baseUrl) THEN Val(Body.baseUrl) ELSE PROVIDERS[Val(Body.provider)].base

C8_UrlAndMessagesVerbatim ==
    (Has(upstream) /\ ProviderKnown /\ Call.branch = "openai") =>
        /\ Call.method = "POST"
        /\ Call.url = <<ExpectedBase, PROVIDERS[Val(Body.provider)].path>>
        /\ Call.messages = Body.messages.items

C8_Witness ==
    /\ Has(upstream) /\ Call.branch = "openai"
    /\ Val(Body.provider) = "groq"
    /\ Truthy(Body.baseUrl)
    /\ Call.url = <<Val(Body.baseUrl), "/openai/v1/chat/completions">>
    /\ Len(Call.messages) = 2
    /\ Call.messages[1].role = "system"

(***************************************************************************)
(* C9: the gemini contents has the length and order of the transcript;     *)
(* entry i has role "model" when message i is an assistant message and     *)
(* "user" otherwise (system included), and parts [{ text: content i }].    *)
(***************************************************************************)
C9_GeminiContents ==
    (Has(upstream) /\ Call.branch = "gemini") =>
        /\ Len(Call.contents) = Len(Body.messages.items)
        /\ \A i \in 1..Len(Body.messages.items) :
              LET m == Body.messages.items[i]
                  c == Call.contents[i]
              IN  /\ m.role = "assistant" => c.role = "model"
                  /\ m.role \in {"system", "user"} => c.role = "user"
                  /\ Len(c.parts) = 1
                  /\ c.parts[1].text = m.content

C9_Witness ==
    /\ Has(upstream) /\ Call.branch = "gemini"
    /\ Len(Body.messages.items) = 2
    /\ Body.messages.items[1].role = "system"
    /\ Body.messages.items[2].role = "assistant"
    /\ Body.messages.items[1].content # Body.messages.items[2].content
    /\ Call.contents[1].role = "user"
    /\ Call.contents[2].role = "model"

(***************************************************************************)
(* C10: when the upstream answers with a non-success status, the endpoint  *)
(* returns a failure with exactly that status and an error text containing *)
(* the upstream body text and the provider name, and no reply.             *)
(***************************************************************************)
\* the provider's name as the error texts write it
ProviderNames(provider) == IF provider = "gemini" THEN {"gemini", "Gemini"} ELSE {provider}

C10_UpstreamStatusSurfaced ==
    (Done /\ Has(answer) /\ Val(answer).kind = "notOk") =>
        /\ Response.kind = "error"
        /\ Response.status = Val(answer).status
        /\ Contains(Response.error, Val(answer).text)
        /\ \E n \in ProviderNames(Val(Body.provider)) : Mentions(Response.error, n)
        /\ ~ Has(Response.reply)

(***************************************************************************)
(* C11: on upstream success the reply is choices[0].message.content if     *)
(* present, else choices[0].text if present, else "(no content)"; for      *)
(* gemini candidates[0].content.parts[0].text if present, else             *)
(* "(no content)"; a success result always carries a reply.                *)
(***************************************************************************)
Payload == Val(answer).json
ExpectedReply ==
    IF Call.branch = "gemini"
    THEN (IF Has(Payload.candidate) THEN Val(Payload.candidate) ELSE "(no content)")
    ELSE IF Has(Payload.content) THEN Val(Payload.content)
    ELSE IF Has(Payload.text) THEN Val(Payload.text)
    ELSE "(no content)"

C11_ReplyFallbackChain ==
    /\ (Done /\ Has(answer) /\ Val(answer).kind = "ok" /\ Val(answer).isJson) =>
          /\ Response.kind = "success"
          /\ Response.reply = Some(ExpectedReply)
    /\ (Done /\ Response.kind = "success") => Has(Response.reply)

C11_Witness ==
    /\ Done /\ Has(answer) /\ Val(answer).kind = "ok" /\ Val(answer).isJson
    /\ Call.branch = "openai"
    /\ ~ Has(Payload.content) /\ Payload.text = Some("x")
    /\ Response.reply = Some("x")

(***************************************************************************)
(* C12: every invocation ends with a success result or a JSON error object *)
(* with a status; no error kind, an unreachable upstream or an unexpected  *)
(* success body included, leaves the handler as an uncaught fault.         *)
(***************************************************************************)
C12_NoUncaughtFault ==
    Done => Response.kind \in {"success", "error"}

(***************************************************************************)
(* C19: the value of a provider's environment variable is sent only to     *)
(* that provider's configured base URL, never to a base URL the caller     *)
(* chose.                                                                  *)
(***************************************************************************)
C19_EnvKeyStaysWithProvider ==
    Has(upstream) =>
        \A n \in EnvNames :
            (Truthy(processEnv[n]) /\ SentKey = Val(processEnv[n])) =>
                \E p \in KnownProviders :
                    /\ PROVIDERS[p].env = n
                    /\ Call.url[1] = PROVIDERS[p].base

(***************************************************************************)
(* Vocabulary of the client properties                                     *)
(***************************************************************************)
Transcript == ui.messages
LastMessage == Transcript[Len(Transcript)]
InFlight == Len(calls)
Settings(u) ==
    <<u.provider, u.model, u.system, u.temperature, u.useClientKey, u.clientKey>>

\* the call i settles without a success result in this step
SettlesWithoutSuccess(i) ==
    \/ \E message \in ThrownMessages : FetchFails(i, message) \/ BodyFails(i, message)
    \/ \E e \in RelayErrors : ErrorBodyArrives(i, e.text)
    \/ \E body \in RelayBodies : ~ body.isJson /\ BodyArrives(i, body)
    \/ calls[i].phase = "fetching" /\ BoundElapses(i)

(***************************************************************************)
(* C13: within one client session at most one relay call is outstanding at *)
(* any time: while a call that send() issued has not settled, loading is   *)
(* true and no send trigger (Send button, Enter key) issues another call.  *)
(***************************************************************************)
C13_OneCallOutstanding ==
    /\ InFlight <= 1
    /\ InFlight = 1 => ui.loading

C13_Witness ==
    /\ InFlight = 1
    /\ ui.loading
    /\ trim(ui.input) # ""

(***************************************************************************)
(* C14: a relay call that is still in flight when the 45 s bound elapses   *)
(* is aborted by the client, so no call stays in flight past the bound.    *)
(***************************************************************************)
C14_AbortedAtBound ==
    \A i \in 1..Len(calls) : ~ calls[i].late

(***************************************************************************)
(* C15: when a relay call ends without success (any error status, a thrown *)
(* fetch fault, an abort), the client appends exactly one assistant        *)
(* message made of the warning marker and the error text, removes nothing  *)
(* from the transcript, leaves provider, model, system prompt,             *)
(* temperature, BYOK flag and key as they were, and issues no new call.    *)
(***************************************************************************)
C15_ErrorAppendedSessionIntact ==
    [][\A i \in 1..Len(calls) :
          SettlesWithoutSuccess(i) =>
              /\ Len(ui'.messages) = Len(ui.messages) + 1
              /\ SubSeq(ui'.messages, 1, Len(ui.messages)) = ui.messages
              /\ ui'.messages[Len(ui'.messages)].role = "assistant"
              /\ Head(ui'.messages[Len(ui'.messages)].content) = ErrorPrefix
              /\ Len(ui'.messages[Len(ui'.messages)].content) > 1
              /\ Settings(ui') = Settings(ui)
              /\ ~ ui'.loading
              /\ Len(calls') = Len(calls) - 1
              /\ sends' = sends]_vars

C15_Witness ==
    /\ page = "ready"
    /\ Len(Transcript) >= 2
    /\ Transcript[Len(Transcript) - 1].role = "user"
    /\ LastMessage.role = "assistant"
    /\ LastMessage.content = <<ErrorPrefix, "Request failed (", "500", ")">>
    /\ ~ ui.loading
    /\ InFlight = 0

(***************************************************************************)
(* C16: in every reachable client state the record in local storage does   *)
(* not hold the API key value, whatever sequence of key edits, BYOK        *)
(* toggles and sends occurred.                                             *)
(***************************************************************************)
KeyStored(record) == "clientKey" \in record.fields /\ record.clientKey # ""

C16_KeyNeverPersisted ==
    Has(localStorage) => ~ KeyStored(Val(localStorage))

(***************************************************************************)
(* C17: every message list sent to the relay is non-empty and has at most  *)
(* one system message, which is its first element; the first request of a  *)
(* conversation (empty transcript after load or reset) begins with a       *)
(* system message whose content is the configured system prompt.           *)
(***************************************************************************)
C17_SentTranscriptShape ==
    \A i \in 1..Len(calls) :
        LET m == calls[i].sent.messages
        IN  /\ Len(m) > 0
            /\ \A j \in 2..Len(m) : m[j].role # "system"
            /\ calls[i].first =>
                  /\ m[1].role = "system"
                  /\ m[1].content = <<calls[i].system>>

(***************************************************************************)
(* C18: when the page is loaded over a persisted session, then once the    *)
(* mount effects have settled, provider, model, system prompt, transcript, *)
(* temperature and BYOK flag equal the persisted values, and the stored    *)
(* record is the same as before.                                           *)
(***************************************************************************)
C18_RestoreRoundTrip ==
    [][(page = "unmounted" /\ page' = "ready" /\ Has(localStorage)) =>
          /\ SessionRecord(ui') = Val(localStorage)
          /\ localStorage' = localStorage]_vars

(***************************************************************************)
(* C20: after resetChat the transcript holds only messages of sends made   *)
(* after the reset; the reply or error of a call that was in flight at the *)
(* reset is not appended to the cleared transcript.                        *)
(***************************************************************************)
C20_NothingFromBeforeReset ==
    \A j \in 1..Len(Transcript) : Transcript[j].send > lastReset
====
